---- MODULE Spec2Model ----
(***************************************************************************)
(* Roda zone analytics: the /process background pipeline, its in-memory    *)
(* job tracker, the relational store it writes to (zone_safety_scores,     *)
(* zones, etl_jobs) and the cache-first extraction layer.                  *)
(*                                                                         *)
(* The program runs on one cooperative event loop: code between two awaits *)
(* is atomic, pipelines interleave at awaits.  A database transaction      *)
(* keeps its writes in the session until commit, so other pipelines see    *)
(* them only from the commit on.                                           *)
(***************************************************************************)
EXTENDS Integers, Sequences, FiniteSets, TLC

\* ---- bounds of the model ------------------------------------------------
MaxJobs == 2
MaxClock == 1

JobIds == 1..MaxJobs
Times == 0..MaxClock

\* what data['localidades'] can hold, as the list of LocNombre: an empty GeoDataFrame
\* when the source degraded, else the rows of the locality dataset
LocalidadesData == {<< >>, <<"KENNEDY", "SUBA">>}
\* ProcessRequest.zones: no filter, a zone of the dataset, a zone absent from it
RequestZones == {{}, {"KENNEDY"}, {"CHAPINERO"}}
ScoreValues == {35, 73}

VARIABLES
    job_tracker,        \* main.py job_tracker: job id -> tracker entry
    pc,                 \* position of each background pipeline run
    request,            \* the ProcessRequest of each run
    data,               \* data['localidades'] of each run (LocNombre list)
    scores,             \* the run's list of ZoneSafetyScore
    session,            \* pending upserts of the run's load_zone_safety_scores session
    now,                \* datetime.now()
    zone_safety_scores, \* table zone_safety_scores: sequence of rows
    zones,              \* table zones: set of zone_code
    etl_jobs,           \* table etl_jobs: the row each run created
    response,           \* the response of GET /process/{job_id} being delivered
    cache,              \* the cache file of each guarded dataset
    use_cache,          \* use_cache of the fetch_all_data call
    task,               \* the five fetch tasks of the fetch_all_data call
    fetch_all,          \* the fetch_all_data call: idle, running, returned or raised
    call                \* the last DataTransformer call: its arguments and what it gave

extractVars == <<cache, use_cache, task, fetch_all>>
transformVars == <<call>>

vars == <<job_tracker, pc, request, data, scores, session, now,
          zone_safety_scores, zones, etl_jobs, response, extractVars, transformVars>>

\* ---- DataTransformer: the safety score ------------------------------------------
\* Densities and the running score are counted in thousandths, a returned score in
\* hundredths (73.00 is 7300).
NoCall == [fn |-> "none"]

Min(a, b) == IF a < b THEN a ELSE b
Max(a, b) == IF a > b THEN a ELSE b

\* round(x, 2) for x = n thousandths, in hundredths; a tie goes to the even hundredth
Round2(n) ==
    LET q == n \div 10
        r == n % 10
    IN  IF r < 5 THEN q
        ELSE IF r > 5 THEN q + 1
        ELSE IF q % 2 = 0 THEN q ELSE q + 1

SafetyMetrics(t7, t30, t90, td, km, bd, spots, pd) ==
    [thefts_last_7_days |-> t7, thefts_last_30_days |-> t30, thefts_last_90_days |-> t90,
     theft_density_per_km2 |-> td, bike_lane_coverage_km |-> km,
     bike_lane_density_per_km2 |-> bd, safe_parking_spots |-> spots,
     parking_density_per_km2 |-> pd]

\* settings.risk_thresholds, in its declaration order: level, min, max (points)
risk_thresholds ==
    << <<"VERY_LOW", 80, 100>>, <<"LOW", 60, 80>>, <<"MEDIUM", 40, 60>>,
       <<"HIGH", 20, 40>>, <<"VERY_HIGH", 0, 20>> >>

get_risk_level_Closed(score) ==
    LET hit == {i \in DOMAIN risk_thresholds :
                    /\ risk_thresholds[i][2] * 1000 <= score
                    /\ score <= risk_thresholds[i][3] * 1000}
    IN  IF hit = {} THEN "MEDIUM"
        ELSE risk_thresholds[CHOOSE i \in hit : \A k \in hit : i <= k][1]

\* the first band, in declaration order, with min <= score < max; MEDIUM when none has
get_risk_level(score) ==
    LET hit == {i \in DOMAIN risk_thresholds :
                    /\ risk_thresholds[i][2] * 1000 <= score
                    /\ score < risk_thresholds[i][3] * 1000}
    IN  IF hit = {} THEN "MEDIUM"
        ELSE risk_thresholds[CHOOSE i \in hit : \A k \in hit : i <= k][1]

monthly_theft_penalty_Inclusive(t30) ==
    IF t30 >= 2000 THEN 40
    ELSE IF t30 >= 1500 THEN 35
    ELSE IF t30 >= 1000 THEN 30
    ELSE IF t30 >= 500 THEN 20
    ELSE IF t30 >= 100 THEN 10
    ELSE 0

\* points taken off for the thefts of the last 30 days
monthly_theft_penalty(t30) ==
    IF t30 > 2000 THEN 40
    ELSE IF t30 > 1500 THEN 35
    ELSE IF t30 > 1000 THEN 30
    ELSE IF t30 > 500 THEN 20
    ELSE IF t30 > 100 THEN 10
    ELSE 0

\* points taken off for the theft density (thousandths per km2)
density_penalty(td) ==
    IF td > 50000 THEN 15
    ELSE IF td > 30000 THEN 12
    ELSE IF td > 20000 THEN 10
    ELSE IF td > 10000 THEN 6
    ELSE IF td > 5000 THEN 3
    ELSE 0

ClampScore_NoCeiling(score) == Max(0, score)

\* max(0, min(100, score))
ClampScore(score) == Max(0, Min(100000, score))

calculate_safety_score(metrics) ==
    LET recent_theft_penalty == Min(metrics.thefts_last_7_days * 100, 20000)
        parking_bonus == Min(metrics.parking_density_per_km2 * 5, 10000)
        bikelane_bonus == Min(metrics.bike_lane_density_per_km2 * 10, 15000)
        score == ClampScore(100000 - recent_theft_penalty
                            - monthly_theft_penalty(metrics.thefts_last_30_days) * 1000
                            - density_penalty(metrics.theft_density_per_km2) * 1000
                            + parking_bonus + bikelane_bonus)
    IN  [safety_score |-> Round2(score), risk_level |-> get_risk_level(score)]

\* ---- values ---------------------------------------------------------------
\* job id not in job_tracker
AbsentJob == [status |-> "ABSENT", message |-> "", error |-> "",
              completed_at |-> FALSE, records_processed |-> -1]
\* no etl_jobs row
NoRow == [status |-> "NONE", error_message |-> "", records_processed |-> 0]
NoRequest == [zones |-> {}, force_refresh |-> FALSE]
NoResponse == [endpoint |-> "", code |-> 0, job_id |-> 0, status |-> "", message |-> "",
               estimated_completion |-> FALSE]

\* calculation_date.date(): the day a timestamp falls in
DateOf(t) == t \div 2

\* one ZoneSafetyScore as built by the transform: created_at = updated_at = calculation_date;
\* sc is the score in points, risk_level the level computed with it
NewScore(zone, t, sc) ==
    [zone_code |-> zone, calculation_date |-> DateOf(t), safety_score |-> sc,
     risk_level |-> get_risk_level(sc * 1000), created_at |-> t, updated_at |-> t]

SameKey(r, s) == r.zone_code = s.zone_code /\ r.calculation_date = s.calculation_date

\* ---- the relational store -------------------------------------------------
\* INSERT ... ON CONFLICT (zone_code, calculation_date) DO UPDATE SET <all but created_at>
UpsertScore_InsertOnly(table, s) == Append(table, s)

UpsertScore_DoNothing(table, s) ==
    IF \E i \in DOMAIN table : SameKey(table[i], s) THEN table ELSE Append(table, s)

UpsertScore(table, s) ==
    IF \E i \in DOMAIN table : SameKey(table[i], s)
    THEN [i \in DOMAIN table |->
            IF SameKey(table[i], s)
            THEN [table[i] EXCEPT !.safety_score = s.safety_score,
                                  !.risk_level = s.risk_level,
                                  !.updated_at = s.updated_at]
            ELSE table[i]]
    ELSE Append(table, s)

\* session.commit(): the pending statements take effect, in statement order
RECURSIVE SessionCommit(_, _)
SessionCommit(table, pending) ==
    IF pending = << >> THEN table
    ELSE SessionCommit(UpsertScore(table, Head(pending)), Tail(pending))

\* session.rollback(): nothing of the session reaches the table
SessionRollback_KeepsPartial(table, pending) == SessionCommit(table, pending)

SessionRollback(table, pending) == table

\* load_zones: INSERT ... ON CONFLICT (zone_code) DO UPDATE, one commit
RECURSIVE SeqToSet(_)
SeqToSet(s) == IF s = << >> THEN {} ELSE {Head(s)} \cup SeqToSet(Tail(s))

UpsertZones(table, gdf) == table \cup SeqToSet(gdf)

\* ---- the job tracker ------------------------------------------------------
TrackerFailed(entry, e) ==
    [entry EXCEPT !.status = "FAILED", !.error = e, !.completed_at = TRUE]

TrackerCompleted(entry, records) ==
    [entry EXCEPT !.status = "COMPLETED", !.completed_at = TRUE,
                  !.records_processed = records, !.message = "Procesadas exitosamente"]

\* update_job_status: UPDATE etl_jobs ...; its own failure is logged and swallowed
UpdateJobStatus(row, ok, status, records, error) ==
    IF ok THEN [status |-> status, error_message |-> error, records_processed |-> records]
    ELSE row

\* ---- the extraction layer ---------------------------------------------------
\* the fetchers of fetch_all_data: one unguarded-by-cache crime fetch and the four
\* cache-first fetches (fetch_zones runs for "localidades" and for "upz")
Guarded == {"bike_lanes", "bike_parking", "localidades", "upz"}
Tasks == Guarded \cup {"crime_data"}

\* what the source's HTTP request comes to: a 200 with a parseable payload, a 200 with
\* a payload gpd.read_file cannot parse, raise_for_status raising, the request raising
Outcomes == {"ok", "garbage", "http_error", "transport_error"}

NoCache == [content |-> "none", fresh |-> FALSE]
IdleTask == [state |-> "idle", result |-> "none", outcome |-> "none"]
AwaitingTask == [state |-> "awaiting", result |-> "none", outcome |-> "none"]
Returned(r, o) == [state |-> "returned", result |-> r, outcome |-> o]
Raised(o) == [state |-> "raised", result |-> "none", outcome |-> o]
NoResults == [d \in Tasks |-> "none"]

\* use_cache and cache_file.exists() and cache_age < cache_ttl_seconds
CacheHit(c, uc) == uc /\ c.content # "none" /\ c.fresh

\* gpd.read_file(cache_file): the dataset, or an exception on an unparseable file
ReadCacheFile(c, o) ==
    IF c.content = "geojson" THEN Returned("data_cache", o) ELSE Raised(o)

\* the except clause of a guarded fetcher: the cache file if one exists, else empty
OnFetchFailure_NoFallback(c, o) ==
    IF c.content # "none" THEN ReadCacheFile(c, o) ELSE Raised(o)

OnFetchFailure(c, o) ==
    IF c.content # "none" THEN ReadCacheFile(c, o) ELSE Returned("empty", o)

\* the cache file after the try block: write_bytes(response.content) runs once
\* raise_for_status has passed, before the payload is parsed
CacheAfterResponse(c, o) ==
    IF o = "ok" THEN [content |-> "geojson", fresh |-> TRUE]
    ELSE IF o = "garbage" THEN [content |-> "garbage", fresh |-> TRUE]
    ELSE c

\* the try block and its except clause, from the arrival of the response on
TaskAfterResponse(c, o) ==
    IF o = "ok" THEN Returned("data_source", o)
    ELSE OnFetchFailure(CacheAfterResponse(c, o), o)

\* settings.max_retries
max_retries == 3

\* a call of the retried fetcher in its attempt_number-th attempt
Attempt(t, attempt_number) ==
    [state |-> t.state, result |-> t.result, outcome |-> t.outcome,
     attempt_number |-> attempt_number]

\* the except clauses letting the exception out
fetch_crime_data_Reraises(o) ==
    IF o = "ok" THEN Returned("data_source", o) ELSE Raised(o)

\* the body of fetch_crime_data from the response on: the processed records, and []
\* from `except httpx.HTTPStatusError` and `except Exception` alike
fetch_crime_data(o) ==
    IF o = "ok" THEN Returned("data_source", o) ELSE Returned("empty", o)

\* @retry(stop=stop_after_attempt(settings.max_retries)): an attempt that raised is
\* repeated until the last one, whose exception is raised; a return is final
retry(t, attempt_number) ==
    IF t.state = "raised" /\ attempt_number < max_retries
    THEN Attempt(AwaitingTask, attempt_number + 1)
    ELSE Attempt(t, attempt_number)

\* ---- DataTransformer: metrics and trend from the crime dataset -----------------
\* round(n / d, k) in units of 10^-k for d > 0; a tie goes to the even unit
RoundDiv(n, d) ==
    LET q == n \div d
        r == n % d
    IN  IF 2 * r < d THEN q
        ELSE IF 2 * r > d THEN q + 1
        ELSE IF q % 2 = 0 THEN q ELSE q + 1

RECURSIVE SumSeq(_)
SumSeq(xs) == IF xs = << >> THEN 0 ELSE Head(xs) + SumSeq(Tail(xs))

\* names are held upper-case and stripped; the mapping adds the accents of the dataset
name_mapping == [n \in {"USAQUEN", "FONTIBON"} |->
                    IF n = "USAQUEN" THEN "USAQUÉN" ELSE "FONTIBÓN"]

normalize_locality_name(name) ==
    IF name \in DOMAIN name_mapping THEN name_mapping[name] ELSE name

\* the members of the TrendDirection enumeration
TrendDirection == {"IMPROVING", "STABLE", "WORSENING"}

\* A row of the crime dataset, its count columns summed the way the code sums them:
\*   y24       the ten <type>24CONT columns of calculate_crime_trend
\*   violent25 CMH25CONT, CMDS25CONT, CMLP25CONT, CMVI25CONT
\*   theft25   CMHA25CONT, CMHM25CONT, CMHR25CONT, CMHP25CONT, CMHC25CONT, CMHB25CONT
\*   CMHCE25CON, counted with the property crimes of the metrics but not by the trend
\*   SHAPE_AREA a fraction <<numerator, denominator>> of a square degree
CrimeRow(name, y24, violent25, theft25, cell25, area) ==
    [CMNOMLOCAL |-> name, y24 |-> y24, violent25 |-> violent25, theft25 |-> theft25,
     CMHCE25CON |-> cell25, SHAPE_AREA |-> area]

\* crime_gdf[crime_gdf['CMNOMLOCAL'].str.upper() == normalized_zone_name.upper()]
ZoneCrimeData(zone_name, crime_gdf) ==
    SelectSeq(crime_gdf, LAMBDA r : r.CMNOMLOCAL = normalize_locality_name(zone_name))

\* TrendDirection.<label>: a label the enumeration lacks raises AttributeError, which
\* the function's except clause turns into (STABLE, 0.0)
TrendOrFallback(label, pct) ==
    IF label \in TrendDirection THEN [trend |-> label, trend_percentage |-> pct]
    ELSE [trend |-> "STABLE", trend_percentage |-> 0]

\* the percent change is counted in tenths
calculate_crime_trend(zone_name, crime_gdf) ==
    LET zone_data == ZoneCrimeData(zone_name, crime_gdf)
        zone_record == zone_data[1]
        crimes_2024 == zone_record.y24
        crimes_2025_annualized == (zone_record.violent25 + zone_record.theft25) * 2
        \* change_pct > 15 and change_pct < -15, on the exact quotient
        above == (crimes_2025_annualized - crimes_2024) * 100 > 15 * crimes_2024
        below == (crimes_2025_annualized - crimes_2024) * 100 < (-15) * crimes_2024
        change_pct == RoundDiv((crimes_2025_annualized - crimes_2024) * 1000, crimes_2024)
    IN  IF zone_data = << >> THEN [trend |-> "STABLE", trend_percentage |-> 0]
        ELSE IF crimes_2024 = 0
             THEN IF crimes_2025_annualized > 0 THEN TrendOrFallback("INCREASING", 1000)
                  ELSE [trend |-> "STABLE", trend_percentage |-> 0]
        ELSE IF above THEN TrendOrFallback("INCREASING", change_pct)
        ELSE IF below THEN TrendOrFallback("DECREASING", change_pct)
        ELSE TrendOrFallback("STABLE", change_pct)

\* `not previous_metrics`: no metrics of an earlier period
None == [none |-> TRUE]

\* the cut-offs taken inclusively
calculate_trend_Inclusive(current_metrics, previous_metrics) ==
    LET current_thefts == current_metrics.thefts_last_30_days
        previous_thefts == previous_metrics.thefts_last_30_days
        change_pct == RoundDiv((current_thefts - previous_thefts) * 10000, previous_thefts)
    IN  IF previous_metrics = None THEN [trend |-> "STABLE", trend_percentage |-> 0]
        ELSE IF previous_thefts = 0
             THEN IF current_thefts = 0 THEN [trend |-> "STABLE", trend_percentage |-> 0]
                  ELSE [trend |-> "WORSENING", trend_percentage |-> 10000]
        ELSE IF (current_thefts - previous_thefts) * 100 <= (-10) * previous_thefts
        THEN [trend |-> "IMPROVING", trend_percentage |-> change_pct]
        ELSE IF (current_thefts - previous_thefts) * 100 >= 10 * previous_thefts
        THEN [trend |-> "WORSENING", trend_percentage |-> change_pct]
        ELSE [trend |-> "STABLE", trend_percentage |-> change_pct]

\* calculate_trend compares thefts_last_30_days of two periods; the percent change is
\* counted in hundredths. change_pct < -10 and change_pct > 10 are taken on the exact
\* quotient: a change of exactly a tenth computes to exactly -10.0 or 10.0 in floating
\* point, so the float comparison and the exact one agree at the cut-offs.
calculate_trend(current_metrics, previous_metrics) ==
    LET current_thefts == current_metrics.thefts_last_30_days
        previous_thefts == previous_metrics.thefts_last_30_days
        change_pct == RoundDiv((current_thefts - previous_thefts) * 10000, previous_thefts)
    IN  IF previous_metrics = None THEN [trend |-> "STABLE", trend_percentage |-> 0]
        ELSE IF previous_thefts = 0
             THEN IF current_thefts = 0 THEN [trend |-> "STABLE", trend_percentage |-> 0]
                  ELSE [trend |-> "WORSENING", trend_percentage |-> 10000]
        ELSE IF (current_thefts - previous_thefts) * 100 < (-10) * previous_thefts
        THEN [trend |-> "IMPROVING", trend_percentage |-> change_pct]
        ELSE IF (current_thefts - previous_thefts) * 100 > 10 * previous_thefts
        THEN [trend |-> "WORSENING", trend_percentage |-> change_pct]
        ELSE [trend |-> "STABLE", trend_percentage |-> change_pct]

\* A lanes or parking dataset: the columns it has and its rows; a row holds localidad,
\* length_km (hundredths of a km), length (metres) or capacidad, read only when the
\* column is there.
Dataset(columns, rows) == [columns |-> columns, rows |-> rows]

InZone(dataset, zone_name) ==
    IF "localidad" \in dataset.columns
    THEN SelectSeq(dataset.rows, LAMBDA r : r.localidad = zone_name)
    ELSE << >>

\* kilometres of cycle lane counted for a zone, in hundredths
_calculate_bike_lanes_in_zone(zone_name, bike_lanes_gdf) ==
    LET rows == bike_lanes_gdf.rows
        zone_bike_lanes == InZone(bike_lanes_gdf, zone_name)
        km(rs) == SumSeq([i \in DOMAIN rs |-> rs[i].length_km])
        metres(rs) == SumSeq([i \in DOMAIN rs |-> rs[i].length])
        total_length == IF "length_km" \in bike_lanes_gdf.columns THEN km(rows)
                        ELSE IF "length" \in bike_lanes_gdf.columns THEN metres(rows) * 100
                        ELSE 0
    IN  IF rows = << >> THEN 0
        ELSE IF zone_bike_lanes = << >> THEN RoundDiv(total_length, 20)
        ELSE IF "length_km" \in bike_lanes_gdf.columns THEN km(zone_bike_lanes)
        ELSE IF "length" \in bike_lanes_gdf.columns
             THEN RoundDiv(metres(zone_bike_lanes), 10)
        ELSE Len(zone_bike_lanes) * 50

\* parking spots counted for a zone
_calculate_parking_in_zone(zone_name, parking_df) ==
    LET rows == parking_df.rows
        zone_parking == InZone(parking_df, zone_name)
    IN  IF rows = << >> THEN 0
        ELSE IF zone_parking = << >> THEN Max(1, Len(rows) \div 20)
        ELSE IF "capacidad" \in parking_df.columns
             THEN SumSeq([i \in DOMAIN zone_parking |-> zone_parking[i].capacidad])
        ELSE Len(zone_parking)

\* what a call gives: a value, or the exception it raised
Gave(value) == [raised |-> "", value |-> value]
Threw(exception) == [raised |-> exception]

\* the fallback taken at the limits too
zone_area_km2_Inclusive(zone_data) ==
    LET area == <<zone_data.SHAPE_AREA[1] * 12321, zone_data.SHAPE_AREA[2]>>
    IN  IF area[1] <= 1 * area[2] \/ area[1] >= 1000 * area[2] THEN <<50, 1>> ELSE area

\* area_km2 = zone_area_degrees * 12321 as a fraction <<numerator, denominator>> of a
\* km2, and 50.0 km2 `if area_km2 < 1 or area_km2 > 1000`
zone_area_km2(zone_data) ==
    LET area == <<zone_data.SHAPE_AREA[1] * 12321, zone_data.SHAPE_AREA[2]>>
    IN  IF area[1] < 1 * area[2] \/ area[1] > 1000 * area[2] THEN <<50, 1>> ELSE area

\* the branch taken when the zone has a row in the crime dataset; the densities are
\* round(x / area_km2, 2), held in thousandths
ZoneMetrics(zone_name, zone_data, bike_lanes_gdf, parking_df) ==
    LET property_crimes == zone_data.theft25 + zone_data.CMHCE25CON
        area == zone_area_km2(zone_data)
        bike_lanes_km == _calculate_bike_lanes_in_zone(zone_name, bike_lanes_gdf)
        parking_spots == _calculate_parking_in_zone(zone_name, parking_df)
    IN  SafetyMetrics((property_crimes * 7) \div 180, property_crimes \div 6,
                      property_crimes \div 2,
                      RoundDiv(property_crimes * 100 * area[2], 6 * area[1]) * 10,
                      bike_lanes_km,
                      RoundDiv(bike_lanes_km * area[2], area[1]) * 10,
                      parking_spots,
                      RoundDiv(parking_spots * 100 * area[2], area[1]) * 10)

\* With no row for the zone the function builds its default SafetyMetrics from
\* bike_lanes_km and parking_spots, locals that are assigned only further down, after
\* this return: reading them raises UnboundLocalError.
calculate_zone_metrics_real_data(zone_name, crime_gdf, bike_lanes_gdf, parking_df) ==
    LET zone_crime_data == ZoneCrimeData(zone_name, crime_gdf)
    IN  IF zone_crime_data = << >> THEN Threw("UnboundLocalError")
        ELSE Gave(ZoneMetrics(zone_name, zone_crime_data[1], bike_lanes_gdf, parking_df))

Init ==
    /\ job_tracker = [j \in JobIds |-> AbsentJob]
    /\ pc = [j \in JobIds |-> "idle"]
    /\ request = [j \in JobIds |-> NoRequest]
    /\ data = [j \in JobIds |-> << >>]
    /\ scores = [j \in JobIds |-> << >>]
    /\ session = [j \in JobIds |-> << >>]
    /\ now = 0
    /\ zone_safety_scores = << >>
    /\ zones = {}
    /\ etl_jobs = [j \in JobIds |-> NoRow]
    /\ response = NoResponse
    /\ cache = [d \in Guarded |-> NoCache]
    /\ use_cache = TRUE
    /\ task = [d \in Tasks |-> IdleTask]
    /\ fetch_all = [state |-> "idle", data |-> NoResults]
    /\ call = NoCall


\* ---- POST /process and GET /process/{job_id} ------------------------------
\* the run's locals are gone once run_etl_pipeline returns
EndRun(j) ==
    /\ pc' = [pc EXCEPT ![j] = "done"]
    /\ request' = [request EXCEPT ![j] = NoRequest]
    /\ data' = [data EXCEPT ![j] = << >>]
    /\ scores' = [scores EXCEPT ![j] = << >>]
    /\ session' = [session EXCEPT ![j] = << >>]

PipelineFailed_OnlyLogs(j, e) ==
    /\ UNCHANGED job_tracker
    /\ EndRun(j)

\* the except clause of run_etl_pipeline
PipelineFailed(j, e) ==
    /\ job_tracker' = [job_tracker EXCEPT ![j] = TrackerFailed(@, e)]
    /\ EndRun(j)

\* the members of the ProcessingMode enumeration
ProcessingMode == {"BATCH", "REALTIME", "INCREMENTAL"}

\* the validator raising when end_date equals start_date as well
validate_dates_Strict(time_range) == ~(time_range[2] <= time_range[1])

\* TimeRange.validate_dates on <<start_date, end_date>>: raises when v < start_date
validate_dates(time_range) == ~(time_range[2] < time_range[1])

\* the body of a POST /process parses into a ProcessRequest: mode is a member of the
\* enumeration, and time_range is absent (<< >>) or passes its validator
ProcessRequest(mode, time_range) ==
    /\ mode \in ProcessingMode
    /\ IF time_range = << >> THEN TRUE ELSE validate_dates(time_range)

\* the bodies posted: a mode of the enumeration and one outside it; no time range, a
\* range of one instant, a range that ends before it starts
Modes == {"BATCH", "INVALID_MODE"}
TimeRanges == {<< >>, <<1, 1>>, <<1, 0>>}

PostProcess == "POST /process"
GetProcess == "GET /process/{job_id}"

\* job ids are fresh uuids: the next unused id is taken
process_batch(j) ==
    /\ pc[j] = "idle"
    /\ \A k \in JobIds : k < j => pc[k] # "idle"
    /\ \E z \in RequestZones, fr \in BOOLEAN :
          request' = [request EXCEPT ![j] = [zones |-> z, force_refresh |-> fr]]
    /\ \E mode \in Modes, time_range \in TimeRanges :
          /\ ProcessRequest(mode, time_range)
          /\ response' = [endpoint |-> PostProcess, code |-> 200, job_id |-> j,
                          status |-> "PENDING",
                          message |-> "Procesamiento iniciado en segundo plano",
                          estimated_completion |-> TRUE,
                          query |-> [mode |-> mode, time_range |-> time_range]]
    /\ job_tracker' = [job_tracker EXCEPT ![j] =
          [status |-> "PENDING", message |-> "Trabajo en cola para procesamiento",
           error |-> "", completed_at |-> FALSE, records_processed |-> -1]]
    /\ pc' = [pc EXCEPT ![j] = "scheduled"]
    /\ UNCHANGED <<data, scores, session, now, zone_safety_scores, zones, etl_jobs>>
    /\ UNCHANGED <<extractVars, transformVars>>

\* a POST /process whose body does not parse: the framework answers 422 and the handler
\* is never entered
process_batch_422(mode, time_range) ==
    /\ ~ProcessRequest(mode, time_range)
    /\ response' = [endpoint |-> PostProcess, code |-> 422, job_id |-> 0, status |-> "",
                    message |-> "", estimated_completion |-> FALSE,
                    query |-> [mode |-> mode, time_range |-> time_range]]
    /\ UNCHANGED <<job_tracker, pc, request, data, scores, session, now,
                   zone_safety_scores, zones, etl_jobs>>
    /\ UNCHANGED <<extractVars, transformVars>>

\* the lookup left out: every id is answered from the tracker
get_job_status_NoLookup(id) ==
    /\ response' = [endpoint |-> GetProcess, code |-> 200, job_id |-> id,
                    status |-> job_tracker[id].status,
                    message |-> job_tracker[id].message,
                    estimated_completion |-> job_tracker[id].completed_at]
    /\ UNCHANGED <<job_tracker, pc, request, data, scores, session, now,
                   zone_safety_scores, zones, etl_jobs>>
    /\ UNCHANGED <<extractVars, transformVars>>

get_job_status(id) ==
    /\ response' =
          IF job_tracker[id].status = "ABSENT"
          THEN [endpoint |-> GetProcess, code |-> 404, job_id |-> id, status |-> "",
                message |-> "Trabajo no encontrado", estimated_completion |-> FALSE]
          ELSE [endpoint |-> GetProcess, code |-> 200, job_id |-> id,
                status |-> job_tracker[id].status,
                message |-> job_tracker[id].message,
                estimated_completion |-> job_tracker[id].completed_at]
    /\ UNCHANGED <<job_tracker, pc, request, data, scores, session, now,
                   zone_safety_scores, zones, etl_jobs>>
    /\ UNCHANGED <<extractVars, transformVars>>

\* ---- run_etl_pipeline -----------------------------------------------------
StartPipeline_SkipRunning(j) ==
    /\ pc[j] = "scheduled"
    /\ pc' = [pc EXCEPT ![j] = "extract"]
    /\ UNCHANGED <<job_tracker, request, data, scores, session, now,
                   zone_safety_scores, zones, etl_jobs>>
    /\ response' = NoResponse
    /\ UNCHANGED <<extractVars, transformVars>>

StartPipeline(j) ==
    /\ pc[j] = "scheduled"
    /\ job_tracker' = [job_tracker EXCEPT ![j].status = "RUNNING"]
    /\ pc' = [pc EXCEPT ![j] = "extract"]
    /\ UNCHANGED <<request, data, scores, session, now,
                   zone_safety_scores, zones, etl_jobs>>
    /\ response' = NoResponse
    /\ UNCHANGED <<extractVars, transformVars>>

\* fetch_all_data returns the datasets or raises
Extract(j) ==
    /\ pc[j] = "extract"
    /\ \/ /\ \E loc \in LocalidadesData : data' = [data EXCEPT ![j] = loc]
          /\ pc' = [pc EXCEPT ![j] = "transform"]
          /\ UNCHANGED <<job_tracker, request, scores, session>>
       \/ PipelineFailed(j, "extract error")
    /\ UNCHANGED <<now, zone_safety_scores, zones, etl_jobs>>
    /\ response' = NoResponse
    /\ UNCHANGED <<extractVars, transformVars>>

\* [s for s in scores if s.zone_code in request.zones], only when zones is non-empty
FilterZones(ss, zs) ==
    IF zs = {} THEN ss
    ELSE LET Keep(s) == s.zone_code \in zs IN SelectSeq(ss, Keep)

\* transform_all_zones_with_real_data(data, datetime.now()) and the zone filter
Transform(j) ==
    /\ pc[j] = "transform"
    /\ \E t \in Times :
          /\ t >= now
          /\ now' = t
          /\ \/ /\ \E sc \in ScoreValues :
                      scores' = [scores EXCEPT ![j] =
                          FilterZones([i \in DOMAIN data[j] |-> NewScore(data[j][i], t, sc)],
                                      request[j].zones)]
                /\ pc' = [pc EXCEPT ![j] = "create_job"]
                /\ UNCHANGED <<job_tracker, request, data, session>>
             \/ PipelineFailed(j, "transform error")
    /\ UNCHANGED <<zone_safety_scores, zones, etl_jobs>>
    /\ response' = NoResponse
    /\ UNCHANGED <<extractVars, transformVars>>

\* create_job: INSERT a RUNNING row, commit; on failure rollback and raise
CreateJob(j) ==
    /\ pc[j] = "create_job"
    /\ \/ /\ etl_jobs' = [etl_jobs EXCEPT ![j] =
                [status |-> "RUNNING", error_message |-> "", records_processed |-> 0]]
          /\ pc' = [pc EXCEPT ![j] = "zones_exist"]
          /\ UNCHANGED <<job_tracker, request, data, scores, session>>
       \/ /\ PipelineFailed(j, "db error")
          /\ UNCHANGED etl_jobs
    /\ UNCHANGED <<now, zone_safety_scores, zones>>
    /\ response' = NoResponse
    /\ UNCHANGED <<extractVars, transformVars>>

\* zones_exist(): COUNT(*) > 0, False when the query fails
ZonesExist(j) ==
    /\ pc[j] = "zones_exist"
    /\ \E queryOk \in BOOLEAN :
          LET exist == queryOk /\ zones # {} IN
          pc' = [pc EXCEPT ![j] =
                   IF ~exist \/ request[j].force_refresh THEN "load_zones" ELSE "load_data"]
    /\ UNCHANGED <<job_tracker, request, data, scores, session, now,
                   zone_safety_scores, zones, etl_jobs>>
    /\ response' = NoResponse
    /\ UNCHANGED <<extractVars, transformVars>>

\* loader.load_zones(data['localidades']) of run_etl_pipeline
LoadZones(j) ==
    /\ pc[j] = "load_zones"
    /\ \/ /\ zones' = UpsertZones(zones, data[j])
          /\ pc' = [pc EXCEPT ![j] = "load_data"]
          /\ UNCHANGED <<job_tracker, request, data, scores, session>>
       \/ /\ PipelineFailed(j, "db error")
          /\ UNCHANGED zones
    /\ UNCHANGED <<now, zone_safety_scores, etl_jobs>>
    /\ response' = NoResponse
    /\ UNCHANGED <<extractVars, transformVars>>

\* load_data: zones_gdf is data['localidades'], never None, so load_zones runs again
LoadDataZones(j) ==
    /\ pc[j] = "load_data"
    /\ \/ /\ zones' = UpsertZones(zones, data[j])
          /\ pc' = [pc EXCEPT ![j] = "load_scores"]
          /\ UNCHANGED <<job_tracker, request, data, scores, session>>
       \/ /\ PipelineFailed(j, "db error")
          /\ UNCHANGED zones
    /\ UNCHANGED <<now, zone_safety_scores, etl_jobs>>
    /\ response' = NoResponse
    /\ UNCHANGED <<extractVars, transformVars>>

\* load_zone_safety_scores with no scores: returns 0 before touching the store
LoadScoresNone(j) ==
    /\ pc[j] = "load_scores"
    /\ scores[j] = << >>
    /\ job_tracker' = [job_tracker EXCEPT ![j] = TrackerCompleted(@, 0)]
    /\ EndRun(j)
    /\ UNCHANGED <<now, zone_safety_scores, zones, etl_jobs>>
    /\ response' = NoResponse
    /\ UNCHANGED <<extractVars, transformVars>>

\* the except clause of load_zone_safety_scores, then that of run_etl_pipeline
LoadScoresFailed(j) ==
    /\ zone_safety_scores' = SessionRollback(zone_safety_scores, session[j])
    /\ \E updateOk \in BOOLEAN :
          etl_jobs' = [etl_jobs EXCEPT ![j] =
              UpdateJobStatus(@, updateOk, "FAILED", 0, "db error")]
    /\ PipelineFailed(j, "db error")

\* one session.execute(insert_query, params) of the loop
LoadScoresExecute(j) ==
    /\ pc[j] = "load_scores"
    /\ Len(session[j]) < Len(scores[j])
    /\ \/ /\ session' = [session EXCEPT ![j] = Append(@, scores[j][Len(@) + 1])]
          /\ UNCHANGED <<job_tracker, pc, request, data, scores,
                         zone_safety_scores, etl_jobs>>
       \/ LoadScoresFailed(j)
    /\ UNCHANGED <<now, zones>>
    /\ response' = NoResponse
    /\ UNCHANGED <<extractVars, transformVars>>

\* session.commit(), update_job_status(COMPLETED), return inserted; the tracker update
LoadScoresCommit(j) ==
    /\ pc[j] = "load_scores"
    /\ scores[j] # << >>
    /\ Len(session[j]) = Len(scores[j])
    /\ \/ /\ zone_safety_scores' = SessionCommit(zone_safety_scores, session[j])
          /\ \E updateOk \in BOOLEAN :
                etl_jobs' = [etl_jobs EXCEPT ![j] =
                    UpdateJobStatus(@, updateOk, "COMPLETED", Len(session[j]), "")]
          /\ job_tracker' = [job_tracker EXCEPT ![j] = TrackerCompleted(@, Len(session[j]))]
          /\ EndRun(j)
       \/ LoadScoresFailed(j)
    /\ UNCHANGED <<now, zones>>
    /\ response' = NoResponse
    /\ UNCHANGED <<extractVars, transformVars>>

PipelineStep(j) ==
    \/ StartPipeline(j)
    \/ Extract(j)
    \/ Transform(j)
    \/ CreateJob(j)
    \/ ZonesExist(j)
    \/ LoadZones(j)
    \/ LoadDataZones(j)
    \/ LoadScoresNone(j)
    \/ LoadScoresExecute(j)
    \/ LoadScoresCommit(j)

Next ==
    \/ \E j \in JobIds : process_batch(j)
    \/ \E id \in JobIds : get_job_status(id)
    \/ \E j \in JobIds : PipelineStep(j)

Spec == Init /\ [][Next]_vars

\* the event loop runs every scheduled background task, and every step returns or raises
FairSpec == Spec /\ \A j \in JobIds : WF_vars(PipelineStep(j))

\* the service with the bodies POST /process rejects as well
NextProcess ==
    \/ Next
    \/ \E mode \in Modes, time_range \in TimeRanges : process_batch_422(mode, time_range)

SpecProcess == Init /\ [][NextProcess]_vars


\* ---- DataExtractor.fetch_all_data ---------------------------------------------
pipelineVars == <<job_tracker, pc, request, data, scores, session, now,
                  zone_safety_scores, zones, etl_jobs, response, transformVars>>

\* the call up to the await of asyncio.gather: every task runs to its first await, the
\* guarded ones returning at once on a fresh cache file
fetch_all_data(uc) ==
    /\ fetch_all.state # "running"
    /\ use_cache' = uc
    /\ task' = [d \in Tasks |->
                  IF d \in Guarded /\ CacheHit(cache[d], uc)
                  THEN ReadCacheFile(cache[d], "none")
                  ELSE IF d = "crime_data" THEN Attempt(AwaitingTask, 1)
                  ELSE AwaitingTask]
    /\ fetch_all' = [state |-> "running", data |-> NoResults]
    /\ UNCHANGED <<cache, pipelineVars>>

\* fetch_bike_lanes, fetch_bike_parking, fetch_zones from the response on
FetchResponse(d) ==
    /\ task[d].state = "awaiting"
    /\ \E o \in Outcomes :
          /\ cache' = [cache EXCEPT ![d] = CacheAfterResponse(@, o)]
          /\ task' = [task EXCEPT ![d] = TaskAfterResponse(cache[d], o)]
    /\ UNCHANGED <<use_cache, fetch_all, pipelineVars>>

\* one HTTP request of fetch_crime_data is answered, under the retry decorator
CrimeResponse ==
    /\ task["crime_data"].state = "awaiting"
    /\ \E o \in Outcomes :
          task' = [task EXCEPT !["crime_data"] = retry(fetch_crime_data(o), @.attempt_number)]
    /\ UNCHANGED <<cache, use_cache, fetch_all, pipelineVars>>

\* gather(return_exceptions=True) is done: the first exception is raised, else the dict
Gather ==
    /\ fetch_all.state = "running"
    /\ \A d \in Tasks : task[d].state \in {"returned", "raised"}
    /\ fetch_all' =
          IF \E d \in Tasks : task[d].state = "raised"
          THEN [state |-> "raised", data |-> NoResults]
          ELSE [state |-> "returned", data |-> [d \in Tasks |-> task[d].result]]
    /\ UNCHANGED <<cache, use_cache, task, pipelineVars>>

\* cache_ttl_seconds pass; freshness is read only at the start of a call
Expire(d) ==
    /\ fetch_all.state # "running"
    /\ cache[d].content # "none"
    /\ cache[d].fresh
    /\ cache' = [cache EXCEPT ![d].fresh = FALSE]
    /\ UNCHANGED <<use_cache, task, fetch_all, pipelineVars>>

NextExtract ==
    \/ \E uc \in BOOLEAN : fetch_all_data(uc)
    \/ \E d \in Guarded : FetchResponse(d)
    \/ CrimeResponse
    \/ Gather
    \/ \E d \in Guarded : Expire(d)

SpecExtract == Init /\ [][NextExtract]_vars

\* ---- DataTransformer calls ------------------------------------------------------
nonTransformVars == <<job_tracker, pc, request, data, scores, session, now,
                      zone_safety_scores, zones, etl_jobs, response, extractVars>>

\* the metrics the score is called with: each input on both sides of each threshold
MetricsInputs ==
    {SafetyMetrics(t7, t30, 0, td, 0, bd, 0, pd) :
        t7 \in {0, 50, 200, 250},
        t30 \in {0, 100, 101, 500, 501, 1000, 1001, 1200, 1500, 1501, 2000, 2001},
        td \in {0, 5000, 5010, 10000, 10010, 20000, 20010, 30000, 30010, 35000,
                50000, 50010},
        bd \in {0, 1000, 1500, 2000},
        pd \in {0, 4, 2000, 2500}}

ScoreInputs == {0, 19999, 20000, 39999, 40000, 59999, 60000, 79999, 80000, 99999, 100000}

ZoneNames == {"KENNEDY", "USAQUEN", "CHAPINERO"}

\* SHAPE_AREA values: with the factor 12321 they come to 0, 0.5, 0.98568, 1, 1.10889,
\* 36.963, 80, 999.97236, 1000, 1000.09557 and 1500 km2
ShapeAreas == {<<0, 1>>, <<1, 24642>>, <<8, 100000>>, <<1, 12321>>, <<9, 100000>>,
               <<300, 100000>>, <<80, 12321>>, <<8116, 100000>>, <<1000, 12321>>,
               <<8117, 100000>>, <<1500, 12321>>}

\* crime datasets: none, or a row for KENNEDY and one for USAQUÉN
CrimeGdfs ==
    {<< >>} \cup
    {<<CrimeRow("KENNEDY", y24, 0, th, c, a),
       CrimeRow("USAQUÉN", 100, 10, 40, 5, <<300, 100000>>)>> :
        y24 \in {0, 200}, th \in {0, 84, 85, 100, 115, 116}, c \in {0, 14},
        a \in ShapeAreas}

LaneRows == <<[localidad |-> "KENNEDY", length_km |-> 250, length |-> 2500],
              [localidad |-> "SUBA", length_km |-> 120, length |-> 1200]>>
LaneGdfs == {Dataset({}, << >>), Dataset({"localidad", "length_km"}, LaneRows),
             Dataset({"length"}, LaneRows), Dataset({"localidad"}, LaneRows)}

ParkingRows == <<[localidad |-> "KENNEDY", capacidad |-> 12],
                 [localidad |-> "KENNEDY", capacidad |-> 8],
                 [localidad |-> "SUBA", capacidad |-> 20]>>
ParkingDfs == {Dataset({}, << >>), Dataset({"localidad", "capacidad"}, ParkingRows),
               Dataset({"localidad"}, ParkingRows), Dataset({"capacidad"}, ParkingRows)}

Call_calculate_safety_score(metrics) ==
    /\ call = NoCall
    /\ call' = [fn |-> "calculate_safety_score", metrics |-> metrics,
                result |-> calculate_safety_score(metrics)]
    /\ UNCHANGED nonTransformVars

Call_get_risk_level(score) ==
    /\ call = NoCall
    /\ call' = [fn |-> "get_risk_level", score |-> score,
                result |-> get_risk_level(score)]
    /\ UNCHANGED nonTransformVars

Call_calculate_crime_trend(zone_name, crime_gdf) ==
    /\ call = NoCall
    /\ call' = [fn |-> "calculate_crime_trend", zone_name |-> zone_name,
                crime_gdf |-> crime_gdf,
                result |-> calculate_crime_trend(zone_name, crime_gdf)]
    /\ UNCHANGED nonTransformVars

\* the metrics of two periods: thefts_last_30_days on both sides of each cut-off
TrendMetrics(t30) == SafetyMetrics(0, t30, 0, 0, 0, 0, 0, 0)
CurrentThefts == {0, 89, 90, 100, 110, 111}
PreviousMetrics == {None, TrendMetrics(0), TrendMetrics(100)}

Call_calculate_trend(current_metrics, previous_metrics) ==
    /\ call = NoCall
    /\ call' = [fn |-> "calculate_trend", current_metrics |-> current_metrics,
                previous_metrics |-> previous_metrics,
                result |-> calculate_trend(current_metrics, previous_metrics)]
    /\ UNCHANGED nonTransformVars

Call_calculate_zone_metrics_real_data(zone_name, crime_gdf, bike_lanes_gdf, parking_df) ==
    /\ call = NoCall
    /\ call' = [fn |-> "calculate_zone_metrics_real_data", zone_name |-> zone_name,
                crime_gdf |-> crime_gdf, bike_lanes_gdf |-> bike_lanes_gdf,
                parking_df |-> parking_df,
                result |-> calculate_zone_metrics_real_data(zone_name, crime_gdf,
                                                            bike_lanes_gdf, parking_df)]
    /\ UNCHANGED nonTransformVars

\* the caller takes the result
Return ==
    /\ call # NoCall
    /\ call' = NoCall
    /\ UNCHANGED nonTransformVars

NextTransform ==
    \/ Return
    \/ call = NoCall /\ \E metrics \in MetricsInputs : Call_calculate_safety_score(metrics)
    \/ call = NoCall /\ \E score \in ScoreInputs : Call_get_risk_level(score)
    \/ call = NoCall /\ \E zone_name \in ZoneNames, crime_gdf \in CrimeGdfs :
            Call_calculate_crime_trend(zone_name, crime_gdf)
    \/ call = NoCall /\ \E t30 \in CurrentThefts, previous_metrics \in PreviousMetrics :
            Call_calculate_trend(TrendMetrics(t30), previous_metrics)
    \/ call = NoCall /\ \E zone_name \in ZoneNames, crime_gdf \in CrimeGdfs,
          bike_lanes_gdf \in LaneGdfs, parking_df \in ParkingDfs :
            Call_calculate_zone_metrics_real_data(zone_name, crime_gdf,
                                                  bike_lanes_gdf, parking_df)

SpecTransform == Init /\ [][NextTransform]_vars

\* ---- the read endpoints: /zones, /analyze, /ml/anomalies, /ml/clusters --------
MaxZones == 10

\* LocNombre of the locality dataset, in dataset order
Localidades ==
    <<"KENNEDY", "SUBA", "CHAPINERO", "USAQUEN", "BOSA", "ENGATIVA", "FONTIBON",
      "TEUSAQUILLO", "TUNJUELITO", "USME", "SUMAPAZ", "SANTA FE", "PUENTE ARANDA",
      "BARRIOS UNIDOS", "LOS MARTIRES", "ANTONIO NARIÑO", "RAFAEL URIBE URIBE",
      "SAN CRISTOBAL", "CIUDAD BOLIVAR", "LA CANDELARIA">>

\* the timestamps of two calculation days
BatchTimes == {0, 2}
\* the score of the i-th locality in a batch: the two score values alternate, starting
\* with either
BatchScore(p, i) == IF (i + p) % 2 = 0 THEN 35 ELSE 73

apiFrame == <<job_tracker, pc, request, data, scores, session, zones, etl_jobs,
              extractVars, transformVars>>

\* a pipeline run that loaded the scores of the first k localities, calculated at t,
\* and committed: the rows the endpoints read
StoreBatch(k, t, p) ==
    /\ zone_safety_scores = << >> \/ t > now
    /\ zone_safety_scores' =
          SessionCommit(zone_safety_scores,
                        [i \in 1..k |-> NewScore(Localidades[i], t, BatchScore(p, i))])
    /\ now' = t
    /\ response' = NoResponse
    /\ UNCHANGED apiFrame

\* the view v_current_safety_scores: of each zone, the row with the latest
\* calculation_date
v_current_safety_scores(table) ==
    SelectSeq(table, LAMBDA r :
        \A k \in DOMAIN table :
            table[k].zone_code = r.zone_code =>
                table[k].calculation_date <= r.calculation_date)

\* ORDER BY safety_score ASC; rows of equal score come in the order the database
\* picks, here the view's order or its reverse
OrderByScore(rows, ties) ==
    LET before(i, k) ==
            \/ rows[i].safety_score < rows[k].safety_score
            \/ /\ rows[i].safety_score = rows[k].safety_score
               /\ IF ties = "first" THEN i < k ELSE i > k
        rank(i) == Cardinality({k \in DOMAIN rows : before(k, i)}) + 1
    IN  [n \in DOMAIN rows |-> rows[CHOOSE i \in DOMAIN rows : rank(i) = n]]

\* LIMIT :limit
Limit(rows, limit) == SubSeq(rows, 1, Min(limit, Len(rows)))

get_latest_scores_Unordered(table, zone_code, limit, ties) ==
    IF zone_code # ""
    THEN Limit(SelectSeq(v_current_safety_scores(table),
                         LAMBDA r : r.zone_code = zone_code), limit)
    ELSE Limit(v_current_safety_scores(table), limit)

\* zone_code "" stands for None
get_latest_scores(table, zone_code, limit, ties) ==
    IF zone_code # ""
    THEN Limit(SelectSeq(v_current_safety_scores(table),
                         LAMBDA r : r.zone_code = zone_code), limit)
    ELSE Limit(OrderByScore(v_current_safety_scores(table), ties), limit)

Query(zone_code, risk_level, limit, n_clusters) ==
    [zone_code |-> zone_code, risk_level |-> risk_level, limit |-> limit,
     n_clusters |-> n_clusters]

\* The response of an endpoint: the request it answers, the HTTP status, what was raised
\* inside the handler ("" when nothing was), the status field of the result, the
\* records of the body, and for /analyze the recomputed list it searched.
ApiResponse(endpoint, query, code, raised, status, body, all_scores) ==
    [endpoint |-> endpoint, query |-> query, code |-> code, raised |-> raised,
     status |-> status, body |-> body, all_scores |-> all_scores]

\* what get_latest_scores can do: answer, or raise on a database error
DbOutcomes == {"ok", "db error"}
TieOrders == {"first", "last"}
Limits == {1, 2, 20}
RiskFilters == {"", "HIGH", "LOW", "MEDIUM"}
AnalyzeZones == {"KENNEDY", "CHAPINERO", "ZONA_INEXISTENTE"}

\* GET /zones: the latest scores up to limit, then the risk filter on that page
list_zones(risk_level, limit, db, ties) ==
    /\ response = NoResponse
    /\ response' =
          IF db # "ok"
          THEN ApiResponse("/zones", Query("", risk_level, limit, 0), 500, db, "",
                           << >>, << >>)
          ELSE LET latest == get_latest_scores(zone_safety_scores, "", limit, ties)
                   page == IF risk_level # ""
                           THEN SelectSeq(latest, LAMBDA r : r.risk_level = risk_level)
                           ELSE latest
               IN  ApiResponse("/zones", Query("", risk_level, limit, 0), 200, "", "",
                               page, << >>)
    /\ UNCHANGED <<zone_safety_scores, now, apiFrame>>

\* analyze_zone: `except HTTPException: raise`, then `except Exception` -> 500
analyze_zone_except_CatchAll(raised) == 500

analyze_zone_except(raised) == IF raised = "HTTPException 404" THEN 404 ELSE 500

\* detect_anomalies and cluster_zones have `except Exception` alone, and the
\* HTTPException raised inside their try block is an Exception: it comes out as 500
ml_except(raised) == 500

RecomputeOutcomes == {"ok", "extract error", "transform error"}

\* GET /analyze/{zone_code}: the zone's latest persisted score, else a recompute of all
\* zones (fetch_all_data, transform_all_zones_with_real_data) searched for the zone
analyze_zone(zone_code, db, ties, outcome, d, sc) ==
    LET query == Query(zone_code, "", 0, 0)
        persisted == get_latest_scores(zone_safety_scores, zone_code, 1, ties)
        all_scores == [i \in DOMAIN d |-> NewScore(d[i], now, sc)]
        zone_score == SelectSeq(all_scores, LAMBDA r : r.zone_code = zone_code)
    IN  /\ response = NoResponse
        /\ response' =
              IF db # "ok"
              THEN ApiResponse("/analyze", query, analyze_zone_except(db), db, "",
                               << >>, << >>)
              ELSE IF persisted # << >>
              THEN ApiResponse("/analyze", query, 200, "", "persisted",
                               <<persisted[1]>>, << >>)
              ELSE IF outcome # "ok"
              THEN ApiResponse("/analyze", query, analyze_zone_except(outcome), outcome,
                               "", << >>, << >>)
              ELSE IF zone_score = << >>
              THEN ApiResponse("/analyze", query, analyze_zone_except("HTTPException 404"),
                               "HTTPException 404", "recomputed", << >>, all_scores)
              ELSE ApiResponse("/analyze", query, 200, "", "recomputed",
                               <<zone_score[1]>>, all_scores)
        /\ UNCHANGED <<zone_safety_scores, now, apiFrame>>

\* ZoneAnomalyDetector.detect_theft_anomalies: no model is fitted below ten zones
detect_theft_anomalies(zone_data) ==
    IF Len(zone_data) < 10 THEN [status |-> "insufficient_data", fitted |-> FALSE,
                                 total_zones |-> 0]
    ELSE [status |-> "", fitted |-> TRUE, total_zones |-> Len(zone_data)]

\* ZoneAnomalyDetector.cluster_zones
ZoneAnomalyDetector_cluster_zones(zone_data, n_clusters) ==
    IF Len(zone_data) < n_clusters
    THEN [status |-> "insufficient_data", fitted |-> FALSE, total_zones |-> 0]
    ELSE [status |-> "", fitted |-> TRUE, total_zones |-> Len(zone_data)]

\* GET /ml/anomalies
detect_anomalies(db, ties) ==
    LET query == Query("", "", 100, 0)
        latest == get_latest_scores(zone_safety_scores, "", 100, ties)
        anomalies == detect_theft_anomalies(latest)
    IN  /\ response = NoResponse
        /\ response' =
              IF db # "ok"
              THEN ApiResponse("/ml/anomalies", query, ml_except(db), db, "", << >>, << >>)
              ELSE IF latest = << >>
              THEN ApiResponse("/ml/anomalies", query, ml_except("HTTPException 404"),
                               "HTTPException 404", "", << >>, << >>)
              ELSE ApiResponse("/ml/anomalies", query, 200, "", anomalies.status,
                               <<anomalies>>, << >>)
        /\ UNCHANGED <<zone_safety_scores, now, apiFrame>>

\* GET /ml/clusters?n_clusters=
cluster_zones(n_clusters, db, ties) ==
    LET query == Query("", "", 100, n_clusters)
        latest == get_latest_scores(zone_safety_scores, "", 100, ties)
        clusters == ZoneAnomalyDetector_cluster_zones(latest, n_clusters)
    IN  /\ response = NoResponse
        /\ response' =
              IF db # "ok"
              THEN ApiResponse("/ml/clusters", query, ml_except(db), db, "", << >>, << >>)
              ELSE IF latest = << >> \/ Len(latest) < n_clusters
              THEN ApiResponse("/ml/clusters", query, ml_except("HTTPException 404"),
                               "HTTPException 404", "", << >>, << >>)
              ELSE ApiResponse("/ml/clusters", query, 200, "", clusters.status,
                               <<clusters>>, << >>)
        /\ UNCHANGED <<zone_safety_scores, now, apiFrame>>

\* the response has gone out to the client
Deliver ==
    /\ response # NoResponse
    /\ response' = NoResponse
    /\ UNCHANGED <<zone_safety_scores, now, apiFrame>>

NextApi ==
    \/ Deliver
    \/ \E k \in 1..MaxZones, t \in BatchTimes, p \in {0, 1} : StoreBatch(k, t, p)
    \/ response = NoResponse /\ \E risk_level \in RiskFilters, limit \in Limits, db \in DbOutcomes,
          ties \in TieOrders : list_zones(risk_level, limit, db, ties)
    \/ response = NoResponse /\ \E zone_code \in AnalyzeZones, db \in DbOutcomes, ties \in TieOrders,
          outcome \in RecomputeOutcomes, d \in LocalidadesData, sc \in ScoreValues :
            analyze_zone(zone_code, db, ties, outcome, d, sc)
    \/ response = NoResponse /\ \E db \in DbOutcomes, ties \in TieOrders : detect_anomalies(db, ties)
    \/ response = NoResponse /\ \E n_clusters \in 2..10, db \in DbOutcomes, ties \in TieOrders :
            cluster_zones(n_clusters, db, ties)

SpecApi == Init /\ [][NextApi]_vars

\* ---- claims ---------------------------------------------------------------
Terminal == {"COMPLETED", "FAILED"}

RowsWithKey(table, s) == {i \in DOMAIN table : SameKey(table[i], s)}

\* a step of run j that leaves load_zone_safety_scores with a non-empty batch
LeavesLoadScores(j) == pc[j] = "load_scores" /\ scores[j] # << >> /\ pc'[j] = "done"

\* C1: after any sequence of score loads, also by concurrently running pipelines, the
\* zone_safety_scores table holds at most one row per (zone_code, calculation_date).
C1_OneRowPerKey ==
    \A i, k \in DOMAIN zone_safety_scores :
        i # k => ~SameKey(zone_safety_scores[i], zone_safety_scores[k])

\* several keys are stored and one of them was written by two loads
C1_Witness ==
    /\ Len(zone_safety_scores) >= 2
    /\ \E i \in DOMAIN zone_safety_scores :
          zone_safety_scores[i].updated_at # zone_safety_scores[i].created_at

\* C2: a job's tracker status moves only PENDING -> RUNNING -> COMPLETED or FAILED; a
\* GET /process/{job_id} answered before the background run started returns PENDING,
\* and COMPLETED is only returned for a run that has finished.
C2_StatusOrder ==
    [][\A j \in JobIds :
          /\ job_tracker'[j].status # job_tracker[j].status =>
                <<job_tracker[j].status, job_tracker'[j].status>> \in
                    {<<"ABSENT", "PENDING">>, <<"PENDING", "RUNNING">>,
                     <<"RUNNING", "COMPLETED">>, <<"RUNNING", "FAILED">>}
          /\ (response'.endpoint = GetProcess /\ response'.code = 200
              /\ response'.job_id = j) =>
                /\ pc[j] = "scheduled" => response'.status = "PENDING"
                /\ response'.status = "COMPLETED" => pc[j] = "done"]_vars

\* a job polled before its run started, while another job has completed
C2_Witness ==
    /\ response.endpoint = GetProcess
    /\ response.code = 200
    /\ response.status = "PENDING"
    /\ pc[response.job_id] = "scheduled"
    /\ \E k \in JobIds : job_tracker[k].status = "COMPLETED"

\* C3: every scheduled job eventually reaches COMPLETED or FAILED in the tracker,
\* whichever step fails, and a terminal tracker entry never changes again.
C3_Terminates ==
    /\ \A j \in JobIds :
          (job_tracker[j].status = "PENDING") ~> (job_tracker[j].status \in Terminal)
    /\ [][\A j \in JobIds :
             job_tracker[j].status \in Terminal => job_tracker'[j] = job_tracker[j]]_vars

\* one run failed in the load, another one completed
C3_Witness ==
    \E j, k \in JobIds :
        /\ job_tracker[j].status = "FAILED"
        /\ job_tracker[j].error = "db error"
        /\ job_tracker[k].status = "COMPLETED"
        /\ job_tracker[k].records_processed > 0

\* C4: once a run has failed, GET /process/{job_id} returns FAILED and shows the
\* failure's error message in the response.
C4_ErrorVisible ==
    (response.endpoint = GetProcess /\ response.code = 200
     /\ job_tracker[response.job_id].status = "FAILED") =>
        /\ response.status = "FAILED"
        /\ response.message = job_tracker[response.job_id].error

\* C5 as stated: after a load every stored field of the row of a loaded key holds that
\* load's value.
C5_AllFieldsOverwritten ==
    [][\A j \in JobIds :
          (LeavesLoadScores(j) /\ job_tracker'[j].status = "COMPLETED") =>
             \A n \in DOMAIN scores[j] :
                LET s == scores[j][n]
                    after == RowsWithKey(zone_safety_scores', s)
                IN  /\ Cardinality(after) = 1
                    /\ \A i \in after : zone_safety_scores'[i] = s]_vars

\* C5 amended: a load leaves exactly one row per loaded key; every stored field of it
\* holds that load's value except created_at, which keeps the value of the first load
\* of the key.
C5_UpsertKeepsCreatedAt ==
    [][\A j \in JobIds :
          (LeavesLoadScores(j) /\ job_tracker'[j].status = "COMPLETED") =>
             \A n \in DOMAIN scores[j] :
                LET s == scores[j][n]
                    before == RowsWithKey(zone_safety_scores, s)
                    after == RowsWithKey(zone_safety_scores', s)
                IN  /\ Cardinality(after) = 1
                    /\ \A i \in after :
                          /\ zone_safety_scores'[i].safety_score = s.safety_score
                          /\ zone_safety_scores'[i].updated_at = s.updated_at
                          /\ zone_safety_scores'[i].created_at =
                                IF before = {} THEN s.created_at
                                ELSE zone_safety_scores[CHOOSE b \in before : TRUE].created_at]_vars

\* two runs completed and a row was written twice, the second time later than the first
C5_Witness ==
    /\ \A j \in JobIds : job_tracker[j].status = "COMPLETED"
    /\ \E i \in DOMAIN zone_safety_scores :
          zone_safety_scores[i].created_at < zone_safety_scores[i].updated_at

\* C6: load_zone_safety_scores is all-or-nothing per batch: no execute of the loop
\* changes the stored rows, the one commit stores every score of the batch, and a
\* failure leaves the stored rows as they were and is raised to the caller.
C6_AllOrNothing ==
    [][\A j \in JobIds :
          /\ (pc[j] = "load_scores" /\ pc'[j] = "load_scores"
                  /\ session'[j] # session[j]) =>
                zone_safety_scores' = zone_safety_scores
          /\ LeavesLoadScores(j) =>
                \/ /\ job_tracker'[j].status = "COMPLETED"
                   /\ \A n \in DOMAIN scores[j] :
                         \E i \in DOMAIN zone_safety_scores' :
                            /\ SameKey(zone_safety_scores'[i], scores[j][n])
                            /\ zone_safety_scores'[i].safety_score = scores[j][n].safety_score
                \/ /\ job_tracker'[j].status = "FAILED"
                   /\ job_tracker'[j].error = "db error"
                   /\ zone_safety_scores' = zone_safety_scores]_vars

\* a load failed and was raised, its job row marked FAILED, while rows of another
\* load are stored
C6_Witness ==
    \E j \in JobIds :
        /\ job_tracker[j].status = "FAILED"
        /\ etl_jobs[j].status = "FAILED"
        /\ zone_safety_scores # << >>

\* C7: any database write failure in the load phase (score upsert, zone upsert, job
\* bookkeeping) marks the run's persisted ETL job FAILED with the error text and is
\* raised to the pipeline caller.
C7_LoadFailureMarksJob ==
    [][\A j \in JobIds :
          (pc[j] \in {"load_zones", "load_data", "load_scores"}
              /\ job_tracker'[j].status = "FAILED") =>
             /\ etl_jobs'[j].status = "FAILED"
             /\ etl_jobs'[j].error_message = job_tracker'[j].error]_vars


OtherTasks == Tasks \ {"bike_lanes"}

\* C8: with the cycling-lane source unreachable and no bike_lanes cache file,
\* fetch_bike_lanes returns an empty structure without raising, and fetch_all_data
\* then fails only if another fetcher raised: otherwise it returns the result holding
\* the empty lanes and every other source's data.
C8_LanesFailOpen ==
    /\ [][(task["bike_lanes"].state = "awaiting"
              /\ task'["bike_lanes"].outcome = "transport_error"
              /\ cache["bike_lanes"].content = "none") =>
             task'["bike_lanes"] = Returned("empty", "transport_error")]_vars
    /\ []((fetch_all.state \in {"returned", "raised"}
              /\ task["bike_lanes"] = Returned("empty", "transport_error")) =>
            IF \E d \in OtherTasks : task[d].state = "raised"
            THEN fetch_all.state = "raised"
            ELSE /\ fetch_all.state = "returned"
                 /\ fetch_all.data["bike_lanes"] = "empty"
                 /\ \A d \in OtherTasks : fetch_all.data[d] = task[d].result)

\* lanes unreachable without a cache file, and fetch_all_data returned the other data
C8_Witness ==
    /\ fetch_all.state = "returned"
    /\ task["bike_lanes"] = Returned("empty", "transport_error")
    /\ cache["bike_lanes"].content = "none"
    /\ \A d \in OtherTasks : fetch_all.data[d] \in {"data_source", "data_cache"}

\* C9: whatever the cache state and the source outcome, the guarded fetchers return
\* and never raise, so fetch_all_data never fails because of them.
C9_GuardedNeverRaise ==
    /\ \A d \in Guarded : task[d].state # "raised"
    /\ fetch_all.state # "raised"

\* C10: when the fetch fails and a cache file of the dataset exists, the cached
\* content is served, whatever its age and use_cache; an empty structure is returned
\* only when no cache file exists.
C10_StaleCacheServed ==
    [][\A d \in Guarded :
          (task[d].state = "awaiting" /\ task'[d].state # "awaiting"
              /\ task'[d].outcome # "ok") =>
             IF cache[d].content # "none"
             THEN task'[d].state = "returned" /\ task'[d].result = "data_cache"
             ELSE task'[d].state = "returned" /\ task'[d].result = "empty"]_vars

\* C11: for any SafetyMetrics whose fields are all non-negative, calculate_safety_score
\* returns a score s with 0 <= s <= 100.
C11_ScoreInRange ==
    call.fn = "calculate_safety_score" =>
        /\ call.result.safety_score >= 0
        /\ call.result.safety_score <= 10000

\* the bonuses alone would lift the score above 100, and 100 is what comes back
C11_Witness ==
    /\ call.fn = "calculate_safety_score"
    /\ call.metrics.thefts_last_7_days = 0
    /\ call.metrics.thefts_last_30_days = 0
    /\ call.metrics.theft_density_per_km2 = 0
    /\ call.metrics.parking_density_per_km2 = 2500
    /\ call.metrics.bike_lane_density_per_km2 = 2000
    /\ call.result.safety_score = 10000

\* C12: get_risk_level maps a score to the band whose half-open interval [min, max)
\* holds it: [0,20) VERY_HIGH, [20,40) HIGH, [40,60) MEDIUM, [60,80) LOW,
\* [80,100) VERY_LOW; a score of exactly 100 is in no band and is classified MEDIUM.
C12_RiskBands ==
    call.fn = "get_risk_level" =>
        /\ (0 <= call.score /\ call.score < 20000) => call.result = "VERY_HIGH"
        /\ (20000 <= call.score /\ call.score < 40000) => call.result = "HIGH"
        /\ (40000 <= call.score /\ call.score < 60000) => call.result = "MEDIUM"
        /\ (60000 <= call.score /\ call.score < 80000) => call.result = "LOW"
        /\ (80000 <= call.score /\ call.score < 100000) => call.result = "VERY_LOW"
        /\ call.score = 100000 => call.result = "MEDIUM"

C12_Witness ==
    /\ call.fn = "get_risk_level"
    /\ call.score = 100000
    /\ call.result = "MEDIUM"

\* 1 when x lies strictly above the boundary t
Above(x, t) == IF x > t THEN 1 ELSE 0

\* the reference formula, each tier the sum of the steps at its boundaries
ReferenceScore(m) ==
    LET tier30 == 10 * Above(m.thefts_last_30_days, 100)
                  + 10 * Above(m.thefts_last_30_days, 500)
                  + 10 * Above(m.thefts_last_30_days, 1000)
                  + 5 * Above(m.thefts_last_30_days, 1500)
                  + 5 * Above(m.thefts_last_30_days, 2000)
        tierd == 3 * Above(m.theft_density_per_km2, 5000)
                 + 3 * Above(m.theft_density_per_km2, 10000)
                 + 4 * Above(m.theft_density_per_km2, 20000)
                 + 2 * Above(m.theft_density_per_km2, 30000)
                 + 3 * Above(m.theft_density_per_km2, 50000)
        raw == 100000 - Min(100 * m.thefts_last_7_days, 20000) - 1000 * tier30
               - 1000 * tierd + Min(5 * m.parking_density_per_km2, 10000)
               + Min(10 * m.bike_lane_density_per_km2, 15000)
    IN  IF raw < 0 THEN 0 ELSE IF raw > 100000 THEN 100000 ELSE raw

\* thefts_7d = 50, thefts_30d = 1200, theft density 35, parking density 2, lane density 1
ExampleMetrics == SafetyMetrics(50, 1200, 0, 35000, 0, 1000, 0, 2000)

\* C13: calculate_safety_score equals 100 - min(0.1 * thefts_7d, 20) - tier(thefts_30d)
\* - tier(theft_density) + min(5 * parking_density, 10) + min(10 * bikelane_density, 15)
\* clamped to [0, 100] and rounded to two decimals, the tiers stepping strictly above
\* their boundaries; the example metrics give score 73 and risk level LOW.
C13_ReferenceFormula ==
    call.fn = "calculate_safety_score" =>
        /\ call.result.safety_score = Round2(ReferenceScore(call.metrics))
        /\ call.metrics = ExampleMetrics =>
              call.result = [safety_score |-> 7300, risk_level |-> "LOW"]

C13_Witness ==
    /\ call.fn = "calculate_safety_score"
    /\ call.metrics = ExampleMetrics
    /\ call.result.safety_score = 7300
    /\ call.result.risk_level = "LOW"

\* C14: for a zone whose name matches no row of the crime dataset,
\* calculate_zone_metrics_real_data returns, without raising, metrics whose theft counts
\* and theft density are zero and whose lane and parking metrics are those computed
\* for the zone.
C14_NoCrimeRowZeroThefts ==
    (/\ call.fn = "calculate_zone_metrics_real_data"
     /\ ZoneCrimeData(call.zone_name, call.crime_gdf) = << >>) =>
        /\ call.result.raised = ""
        /\ call.result.value.thefts_last_7_days = 0
        /\ call.result.value.thefts_last_30_days = 0
        /\ call.result.value.thefts_last_90_days = 0
        /\ call.result.value.theft_density_per_km2 = 0
        /\ call.result.value.bike_lane_coverage_km =
              _calculate_bike_lanes_in_zone(call.zone_name, call.bike_lanes_gdf)
        /\ call.result.value.safe_parking_spots =
              _calculate_parking_in_zone(call.zone_name, call.parking_df)

\* C15: for a zone with a 2024 total above zero, calculate_crime_trend returns
\* INCREASING when the annualized 2025 total exceeds the 2024 total by more than 15%,
\* DECREASING when it falls short by more than 15%, STABLE otherwise, together with
\* the percent change.
C15_CrimeTrendLabels ==
    (/\ call.fn = "calculate_crime_trend"
     /\ ZoneCrimeData(call.zone_name, call.crime_gdf) # << >>
     /\ ZoneCrimeData(call.zone_name, call.crime_gdf)[1].y24 > 0) =>
        LET row == ZoneCrimeData(call.zone_name, call.crime_gdf)[1]
            diff == (row.violent25 + row.theft25) * 2 - row.y24
        IN  /\ call.result.trend =
                  IF diff * 100 > 15 * row.y24 THEN "INCREASING"
                  ELSE IF diff * 100 < (-15) * row.y24 THEN "DECREASING"
                  ELSE "STABLE"
            /\ call.result.trend_percentage = RoundDiv(diff * 1000, row.y24)

\* an endpoint of the read API has answered `endpoint` with a working database
Answered(endpoint) ==
    /\ "endpoint" \in DOMAIN response
    /\ response.endpoint = endpoint
    /\ response.raised # "db error"

\* the zones that have a persisted score
PersistedZones == v_current_safety_scores(zone_safety_scores)

\* C16: GET /ml/clusters asked for more clusters than there are persisted zone scores
\* responds with HTTP 404.
C16_ClustersInsufficient404 ==
    (Answered("/ml/clusters") /\ Len(PersistedZones) < response.query.n_clusters) =>
        response.code = 404

\* C17: GET /ml/anomalies responds with HTTP 404 when there are no persisted scores.
C17_AnomaliesNoData404 ==
    (Answered("/ml/anomalies") /\ PersistedZones = << >>) => response.code = 404

\* C18: with at least one and fewer than 10 zone scores the anomaly analysis reports
\* insufficient data without fitting a model, and GET /ml/anomalies answers it with a
\* 404, not a 200 and not a server error.
C18_AnomaliesFewZones404 ==
    (Answered("/ml/anomalies") /\ Len(PersistedZones) >= 1 /\ Len(PersistedZones) < 10) =>
        /\ response.code = 404
        /\ response.status = "insufficient_data"

\* C19: GET /analyze/{zone_code} answers 200 with the zone's latest persisted score when
\* there is one; when there is none and the recompute of all zones gave a list, it
\* answers 404 (not 500) if the zone is not in the list and 200 with the zone's
\* recomputed score if it is.
C19_AnalyzePersistedOrRecomputed ==
    (Answered("/analyze") /\ response.raised \notin {"extract error", "transform error"}) =>
        LET zone == response.query.zone_code
            persisted == SelectSeq(PersistedZones, LAMBDA r : r.zone_code = zone)
            listed == SelectSeq(response.all_scores, LAMBDA r : r.zone_code = zone)
        IN  IF persisted # << >>
            THEN response.code = 200 /\ response.body = <<persisted[1]>>
            ELSE /\ response.status = "recomputed"
                 /\ IF listed = << >> THEN response.code = 404
                    ELSE response.code = 200 /\ response.body = <<listed[1]>>

\* the recompute gave scores for other zones only, and the answer is 404
C19_Witness ==
    /\ Answered("/analyze")
    /\ response.all_scores # << >>
    /\ response.code = 404
    /\ zone_safety_scores # << >>

\* C20: GET /zones returns at most `limit` records in ascending order of safety score,
\* and with a risk_level filter every returned record has that risk level.
C20_ZonesPage ==
    (Answered("/zones") /\ response.code = 200) =>
        /\ Len(response.body) <= response.query.limit
        /\ \A i, k \in DOMAIN response.body :
              i < k => response.body[i].safety_score <= response.body[k].safety_score
        /\ response.query.risk_level # "" =>
              \A i \in DOMAIN response.body :
                  response.body[i].risk_level = response.query.risk_level

\* a full page, cut from more zones than the limit, with scores that differ
C20_Witness ==
    /\ Answered("/zones")
    /\ response.query.limit = 2
    /\ Len(response.body) = 2
    /\ Len(PersistedZones) > 2
    /\ response.body[1].safety_score < response.body[2].safety_score

\* C23: calculate_trend labels a change of thefts_last_30_days below -10% IMPROVING,
\* above +10% WORSENING and anything between, the cut-offs included, STABLE, with the
\* percent change: against 100 thefts, 89 is IMPROVING, 90 and 110 are STABLE, 111 is
\* WORSENING. Without previous metrics it gives (STABLE, 0); with zero previous thefts
\* and current thefts above zero it gives (WORSENING, 100).
C23_TrendLabels ==
    call.fn = "calculate_trend" =>
        LET cur == call.current_metrics.thefts_last_30_days
            prev == call.previous_metrics.thefts_last_30_days
        IN  /\ call.previous_metrics = None =>
                  call.result = [trend |-> "STABLE", trend_percentage |-> 0]
            /\ (call.previous_metrics # None /\ prev = 0 /\ cur > 0) =>
                  call.result = [trend |-> "WORSENING", trend_percentage |-> 10000]
            /\ (call.previous_metrics # None /\ prev = 100) =>
                  /\ call.result.trend = IF cur < 90 THEN "IMPROVING"
                                         ELSE IF cur > 110 THEN "WORSENING"
                                         ELSE "STABLE"
                  /\ call.result.trend_percentage = (cur - 100) * 100

C23_Witness ==
    /\ call.fn = "calculate_trend"
    /\ call.previous_metrics # None
    /\ call.previous_metrics.thefts_last_30_days = 100
    /\ call.current_metrics.thefts_last_30_days = 90
    /\ call.result = [trend |-> "STABLE", trend_percentage |-> -1000]

\* C24: the area of a zone is its area in square degrees times 12321, replaced by 50.0
\* exactly when that product is below 1 or above 1000: products of 0.5 and 1500 give
\* 50.0, while 80 and the limits 1 and 1000 themselves are kept. The area is read off
\* the parking density, round(parking_spots / area, 2).
C24_AreaFallback ==
    (/\ call.fn = "calculate_zone_metrics_real_data"
     /\ call.result.raised = "") =>
        LET shape == ZoneCrimeData(call.zone_name, call.crime_gdf)[1].SHAPE_AREA
            spots == call.result.value.safe_parking_spots
            density == call.result.value.parking_density_per_km2
            fallback == shape[1] * 12321 < shape[2] \/ shape[1] * 12321 > 1000 * shape[2]
        IN  /\ density = IF fallback THEN RoundDiv(spots * 100, 50) * 10
                         ELSE RoundDiv(spots * 100 * shape[2], shape[1] * 12321) * 10
            /\ spots = 20 =>
                  /\ shape \in {<<1, 24642>>, <<1500, 12321>>} => density = 400
                  /\ shape = <<80, 12321>> => density = 250
                  /\ shape = <<1, 12321>> => density = 20000
                  /\ shape = <<1000, 12321>> => density = 20

C24_Witness ==
    /\ call.fn = "calculate_zone_metrics_real_data"
    /\ call.result.raised = ""
    /\ call.zone_name = "KENNEDY"
    /\ call.crime_gdf[1].SHAPE_AREA = <<1000, 12321>>
    /\ call.result.value.safe_parking_spots = 20
    /\ call.result.value.parking_density_per_km2 = 20

\* C25: whenever the tracker shows a run COMPLETED or FAILED, the etl_jobs row that run
\* created is COMPLETED or FAILED too, also when the score list was empty and when the
\* zone upsert failed.
C25_JobRowTerminal ==
    \A j \in JobIds :
        (job_tracker[j].status \in Terminal /\ etl_jobs[j] # NoRow) =>
            etl_jobs[j].status \in Terminal

\* a step in which a load_zones call of run j executes its upserts and commits
ZoneUpsert(j) ==
    /\ data[j] # << >>
    /\ \/ pc[j] = "load_zones" /\ pc'[j] = "load_data"
       \/ pc[j] = "load_data" /\ pc'[j] = "load_scores"

\* C26: a run upserts zones only when the zones table is empty or the request carries
\* force_refresh: a run that finds zones present with force_refresh false performs no
\* zone upsert.
C26_ZonesOnlyWhenNeeded ==
    [][\A j \in JobIds : ZoneUpsert(j) => (zones = {} \/ request[j].force_refresh)]_vars

\* C28: a fetch of fetch_bike_lanes, fetch_bike_parking or fetch_zones that fails, in
\* the request or in parsing the payload, leaves the cache file as it was: the file is
\* replaced only by a payload that was downloaded and parsed successfully.
C28_FailedFetchKeepsCache ==
    [][\A d \in Guarded :
          (task[d].state = "awaiting" /\ task'[d].state # "awaiting"
           /\ task'[d].outcome # "ok") => cache'[d] = cache[d]]_vars

\* C30: GET /zones with a risk_level filter returns min(limit, M) records, M being the
\* number of current zone scores that have that risk level.
C30_FilteredCount ==
    (Answered("/zones") /\ response.code = 200 /\ response.query.risk_level # "") =>
        LET matching == SelectSeq(PersistedZones,
                                  LAMBDA r : r.risk_level = response.query.risk_level)
        IN  Len(response.body) = Min(response.query.limit, Len(matching))

\* C21: a POST /process whose mode is not a ProcessingMode value, or whose time_range
\* ends before it starts, is answered 422, creates no tracker entry and schedules no
\* pipeline; any other body posted is accepted, a time_range whose end_date equals its
\* start_date included.
C21_InvalidBodyRejected ==
    [][response'.endpoint = PostProcess =>
          LET mode == response'.query.mode
              time_range == response'.query.time_range
              invalid == \/ mode \notin {"BATCH", "REALTIME", "INCREMENTAL"}
                         \/ time_range \in {<<1, 0>>}
          IN  IF invalid
              THEN response'.code = 422 /\ job_tracker' = job_tracker /\ pc' = pc
              ELSE /\ response'.code = 200
                   /\ job_tracker[response'.job_id].status = "ABSENT"
                   /\ job_tracker'[response'.job_id].status = "PENDING"
                   /\ pc'[response'.job_id] = "scheduled"]_vars

\* the second job is posted with an end_date equal to its start_date
C21_Witness ==
    /\ response.endpoint = PostProcess
    /\ response.code = 200
    /\ response.query.time_range = <<1, 1>>
    /\ job_tracker[response.job_id].status = "PENDING"
    /\ response.job_id = 2

\* C22: GET /process/{job_id} answers 404 for an id no POST has returned and 200 with
\* the tracker's current status for an id one has returned, and never changes the
\* tracker.
C22_StatusLookup ==
    /\ [](response.endpoint = GetProcess =>
             IF job_tracker[response.job_id].status = "ABSENT"
             THEN response.code = 404
             ELSE /\ response.code = 200
                  /\ response.status = job_tracker[response.job_id].status)
    /\ [][response'.endpoint = GetProcess => job_tracker' = job_tracker]_vars

\* an id not yet handed out is asked for while the job of the other id is running
C22_Witness ==
    /\ response.endpoint = GetProcess
    /\ response.code = 404
    /\ \E j \in JobIds : job_tracker[j].status = "RUNNING"

DerivedColumn == [d \in {"bike_lanes", "localidades", "upz"} |->
                     IF d = "bike_lanes" THEN "length_km" ELSE "area_km2"]

\* the payloads of the sources: the lanes datasets, and a zones dataset of one row
ZoneRows == <<[LocNombre |-> "KENNEDY", area_km2 |-> 3859]>>
Payloads(d) ==
    IF d = "bike_lanes" THEN LaneGdfs \ {Dataset({}, << >>)}
    ELSE {Dataset({"LocNombre"}, ZoneRows), Dataset({"LocNombre", "area_km2"}, ZoneRows)}

\* the dataset a fetcher returned, for a source and a cache file that hold `payload`:
\* the fresh path adds the derived column, the cached paths return the file as read
FetchedDataset(d, payload, result) ==
    IF result = "data_source"
    THEN Dataset(payload.columns \cup {DerivedColumn[d]}, payload.rows)
    ELSE IF result = "data_cache" THEN payload
    ELSE Dataset({}, << >>)

\* C29: fetch_bike_lanes and fetch_zones return the same dataset, the derived length_km
\* or area_km2 included, whether it is served from the cache file or freshly
\* downloaded, so the kilometres of cycle lane counted for a zone do not depend on a
\* cache hit.
C29_CacheSameAsFresh ==
    \A d \in DOMAIN DerivedColumn :
        (task[d].state = "returned" /\ task[d].result \in {"data_source", "data_cache"}) =>
            \A payload \in Payloads(d) :
                LET fetched == FetchedDataset(d, payload, task[d].result)
                    fresh == FetchedDataset(d, payload, "data_source")
                IN  /\ fetched = fresh
                    /\ d = "bike_lanes" =>
                          _calculate_bike_lanes_in_zone("KENNEDY", fetched) =
                              _calculate_bike_lanes_in_zone("KENNEDY", fresh)

====
